---------------------------- MODULE Spec2Model ----------------------------
(***************************************************************************)
(* Email-open tracker (src/server.js): an express server over one SQLite   *)
(* table.  GET /track/:trackingId.png records a pixel observation and      *)
(* always answers with a 1x1 PNG; GET /api/recent-opens lists the records  *)
(* classified as genuine opens, GET /api/tracking/:trackingId returns one  *)
(* record and GET /api/all-tracking the records with a counted open.       *)
(*                                                                         *)
(* Time is in milliseconds (Date.now()).  An ISO-8601 string produced by   *)
(* toISOString() is a fixed-width UTC rendering with millisecond           *)
(* precision: it is represented by the millisecond instant it renders, and *)
(* SQLite's TEXT comparison of two such strings is the comparison of their *)
(* instants.  A created_at value is SQLite's CURRENT_TIMESTAMP text,       *)
(* 'YYYY-MM-DD HH:MM:SS' in UTC with second precision: it is represented   *)
(* by the UTC instant (ms) of that whole second.  JavaScript's Date        *)
(* constructor reads a string of that shape (no 'T', no zone designator)   *)
(* as LOCAL time of the server process, so the instant it yields depends   *)
(* on the process's time zone (variable tz, fixed at start-up).            *)
(*                                                                         *)
(* Each sqlite3 call (db.get, db.run, db.all) is queued and executed       *)
(* later on the database thread; its callback runs later still on the      *)
(* event loop.  A request handler and each callback run to completion, so  *)
(* each is one action; the statements they queue are separate actions      *)
(* that may interleave with those of other requests.                       *)
(***************************************************************************)
EXTENDS Integers, Sequences, FiniteSets, TLC

(* ------------------------------ bounds -------------------------------- *)
\* number of pixel requests served in one behaviour (one slot per request)
MaxRequests == 2
\* number of times the clock is advanced in one behaviour
MaxTicks == 2
\* number of /api requests served in one behaviour
MaxQueries == 1

(* ------------------------- program constants -------------------------- *)
\* isTooSoonAfterCreation: timeDiff < 120000; recent-opens: timeDiff >= 120000
GraceMs == 120000
\* CURRENT_TIMESTAMP has second precision
SecondMs == 1000
\* recent-opens: default since = Date.now() - 3600000
DefaultSinceMs == 3600000
\* res.send / res.json answer with status 200 unless res.status() is called
StatusOk == 200
\* all-tracking: LIMIT 100
AllLimit == 100

(* ------------------------------ inputs -------------------------------- *)
Slots == 1..MaxRequests
TrackingIds == {"abc", "xyz"}
Ips == {"1.1.1.1", "2.2.2.2"}
\* the User-Agent header of a request; NoHeader when the header is missing
NoHeader == "<none>"
UserAgentHeaders == {NoHeader, "GoogleImageProxy"}
\* amounts by which the clock advances between two steps
Deltas == {500, 119500}
\* the server process's local offset from UTC (ms): UTC, east, west
TzOffsets == {0, 3600000, -3600000}
\* the since query parameter of /api/recent-opens; NoSince when missing
NoSince == [present |-> FALSE, value |-> 0]
SinceInputs == {NoSince} \cup {[present |-> TRUE, value |-> v] : v \in {500}}

Null == "<null>"
NoRow == [tracking_id |-> Null]
DbError == [tracking_id |-> "<err>"]
NoReq == [trackingId |-> Null]
NoResponse == [status |-> 0]
NotClassified == [found |-> FALSE, ip |-> Null, ua |-> Null, at |-> 0]

VARIABLES
    now,       \* Date.now()
    ticks,     \* how often the clock has advanced
    tz,        \* local time zone offset of the server process
    table,     \* email_tracking: the set of its rows
    pc,        \* per pixel request: what it waits for
    req,       \* per pixel request: the handler's locals
    got,       \* per pixel request: what db.get passed to its callback
    out,       \* per pixel request: the outcome the handler logged
    response,  \* per pixel request: the response sent to the client
    queries,   \* /api/recent-opens: how many requests were served
    qpc,       \* /api/recent-opens: what the request waits for
    qsince,    \* /api/recent-opens: since
    qrows,     \* /api/recent-opens: what db.all passed to its callback
    recentResp,\* /api/recent-opens: the last response
    idpc,      \* /api/tracking/:trackingId: what the request waits for
    idreq,     \* /api/tracking/:trackingId: the trackingId parameter
    idrow,     \* /api/tracking/:trackingId: what db.get passed to its callback
    idResp,    \* /api/tracking/:trackingId: the last response
    allpc,     \* /api/all-tracking: what the request waits for
    allrows,   \* /api/all-tracking: what db.all passed to its callback
    allResp,   \* /api/all-tracking: the last response
    baseline,  \* history: per tracking id, the timestamp its INSERT wrote
    applied,   \* history: per tracking id, the UPDATEs executed on its row
    classified \* history: per pixel request, what its db.get callback saw

vars == <<now, ticks, tz, table, pc, req, got, out, response,
          queries, qpc, qsince, qrows, recentResp,
          idpc, idreq, idrow, idResp, allpc, allrows, allResp,
          baseline, applied, classified>>

pixelVars == <<pc, req, got, out, response>>
queryVars == <<queries, qpc, qsince, qrows, recentResp>>
apiVars == <<idpc, idreq, idrow, idResp, allpc, allrows, allResp>>
histVars == <<baseline, applied>>

(* --------------------------- pure helpers ----------------------------- *)

\* 1x1 transparent PNG (base64 payload of the module-level buffer)
transparentPixel == "iVBORw0KGgoAAAANSUhEUgAAAAEAAAABCAYAAAAfFcSJAAAADUlEQVR42mNk+M9QDwADhgGAWjR9awAAAABJRU5ErkJggg=="

\* floor division that is also right for negative instants
FloorDiv(a, b) == IF a >= 0 THEN a \div b ELSE -(((-a) + b - 1) \div b)

\* created_at DATETIME DEFAULT CURRENT_TIMESTAMP: the UTC clock cut to the second
CurrentTimestamp(t) == FloorDiv(t, SecondMs) * SecondMs

\* new Date(createdAt).getTime() for a 'YYYY-MM-DD HH:MM:SS' string: the
\* string is read as local time, so the instant is the UTC reading minus
\* the local offset
ParseCreatedAt(createdAt) == createdAt - tz

\* isTooSoonAfterCreation(createdAt), evaluated at Date.now() = t.  The guard
\* if (!createdAt) return false never applies: every row comes from the one
\* INSERT, which leaves created_at to its DEFAULT CURRENT_TIMESTAMP
isTooSoonAfterCreation(createdAt, t) ==
    (t - ParseCreatedAt(createdAt)) < GraceMs

\* const isSenderIP = row.sender_ip && ipAddress === row.sender_ip
isSenderIP(row, ipAddress) ==
    row.sender_ip # Null /\ ipAddress = row.sender_ip

\* the count decision with && in place of ||
ShouldCountOnlyIfBoth(row, ipAddress, t) ==
    ~isSenderIP(row, ipAddress) /\ ~isTooSoonAfterCreation(row.created_at, t)

\* if (!isSenderIP || !isTooSoon): the observation counts as a real open
ShouldCount(row, ipAddress, t) ==
    ~isSenderIP(row, ipAddress) \/ ~isTooSoonAfterCreation(row.created_at, t)

\* String.prototype.toLowerCase on the user-agent values of the model
ToLowerCase(str) ==
    CASE str = "GoogleImageProxy" -> "googleimageproxy"
      [] str = "Unknown" -> "unknown"
      [] OTHER -> str

\* String.prototype.includes on the lower-cased user-agent values of the model
Includes(str, part) ==
    <<str, part>> \in {<<"googleimageproxy", "google">>,
                       <<"googleimageproxy", "googleimageproxy">>}

\* isGmailProxy(userAgent, ip); the ip parameter is not used
isGmailProxy(userAgent, ip) ==
    IF userAgent = "" THEN FALSE
    ELSE Includes(ToLowerCase(userAgent), "google")
           \/ Includes(ToLowerCase(userAgent), "gmail")
           \/ Includes(ToLowerCase(userAgent), "googleimageproxy")

\* a decision that counts every observation a mail-provider proxy made
CountsAsRealOpenOrProxy(row, r, t) ==
    isGmailProxy(r.userAgent, r.ipAddress) \/ ShouldCount(row, r.ipAddress, t)

\* the decision of the db.get callback for the locals r of its handler:
\* isGmailProxyOpen is computed and logged, the if does not read it
CountsAsRealOpen(row, r, t) ==
    LET isGmailProxyOpen == isGmailProxy(r.userAgent, r.ipAddress)
    IN  ShouldCount(row, r.ipAddress, t)

\* req.headers['user-agent'] || 'Unknown'
UserAgentOf(header) == IF header = NoHeader THEN "Unknown" ELSE header

RowsOf(tbl, trackingId) == {r \in tbl : r.tracking_id = trackingId}

\* SELECT * FROM email_tracking WHERE tracking_id = ?  (db.get: first row or none)
SelectByTrackingId(tbl, trackingId) ==
    IF RowsOf(tbl, trackingId) = {} THEN NoRow
    ELSE CHOOSE r \in RowsOf(tbl, trackingId) :
            \A o \in RowsOf(tbl, trackingId) : r.id <= o.id

\* id INTEGER PRIMARY KEY AUTOINCREMENT
NextRowId(tbl) ==
    IF tbl = {} THEN 1
    ELSE 1 + (CHOOSE m \in {r.id : r \in tbl} : \A r \in tbl : r.id <= m)

\* the column without its UNIQUE constraint
UniqueNotEnforced(tbl, trackingId) == FALSE

\* tracking_id TEXT UNIQUE NOT NULL
UniqueViolated(tbl, trackingId) == RowsOf(tbl, trackingId) # {}

\* the INSERT with open_count 1 (the variant that counts the first observation)
InsertedRowAsFirstOpen(tbl, r, t) ==
    [id |-> NextRowId(tbl),
     tracking_id |-> r.trackingId,
     ip_address |-> r.ipAddress,
     user_agent |-> r.userAgent,
     first_opened |-> r.timestamp,
     last_opened |-> r.timestamp,
     open_count |-> 1,
     sender_ip |-> r.ipAddress,
     created_at |-> CurrentTimestamp(t)]

\* the row INSERT INTO email_tracking (...) VALUES (?, ?, ?, ?, ?, 0, ?) adds,
\* executed when the UTC clock reads t
InsertedRow(tbl, r, t) ==
    [id |-> NextRowId(tbl),
     tracking_id |-> r.trackingId,
     ip_address |-> r.ipAddress,
     user_agent |-> r.userAgent,
     first_opened |-> r.timestamp,
     last_opened |-> r.timestamp,
     open_count |-> 0,
     sender_ip |-> r.ipAddress,
     created_at |-> CurrentTimestamp(t)]

\* the UPDATE without open_count = open_count + 1
UpdatedRowKeepsCount(row, r) ==
    [row EXCEPT !.last_opened = r.timestamp,
                !.ip_address = r.ipAddress,
                !.user_agent = r.userAgent]

\* the UPDATE with open_count = 1: what a read-modify-write computes from
\* the count a baseline record had when the callback read it
UpdatedRowFromStaleRead(row, r) ==
    [row EXCEPT !.last_opened = r.timestamp,
                !.open_count = 1,
                !.ip_address = r.ipAddress,
                !.user_agent = r.userAgent]

\* the UPDATE that also sets first_opened when it counts the first open
UpdatedRowSetsFirstOpened(row, r) ==
    [row EXCEPT !.first_opened = IF row.open_count = 0 THEN r.timestamp ELSE @,
                !.last_opened = r.timestamp,
                !.open_count = row.open_count + 1,
                !.ip_address = r.ipAddress,
                !.user_agent = r.userAgent]

\* the UPDATE with sender_ip = ? added to its SET list
UpdatedRowRewritesSender(row, r) ==
    [row EXCEPT !.last_opened = r.timestamp,
                !.open_count = row.open_count + 1,
                !.ip_address = r.ipAddress,
                !.user_agent = r.userAgent,
                !.sender_ip = r.ipAddress]

\* UPDATE email_tracking SET last_opened = ?, open_count = open_count + 1,
\*   ip_address = ?, user_agent = ? WHERE tracking_id = ?   on one row
UpdatedRow(row, r) ==
    [row EXCEPT !.last_opened = r.timestamp,
                !.open_count = row.open_count + 1,
                !.ip_address = r.ipAddress,
                !.user_agent = r.userAgent]

\* the UPDATE statement on the whole table
UpdateTable(tbl, r) ==
    {IF row.tracking_id = r.trackingId THEN UpdatedRow(row, r) ELSE row : row \in tbl}

\* a pixel response that answers 404 for a tracking id without a record
PixelResponseUnlessUnknown(trackingId) ==
    IF \E r \in table : r.tracking_id = trackingId
      THEN [status |-> StatusOk,
            contentType |-> "image/png",
            cacheControl |-> "no-store, no-cache, must-revalidate, private",
            pragma |-> "no-cache",
            expires |-> "0",
            body |-> transparentPixel]
      ELSE [status |-> 404,
            contentType |-> "application/json",
            cacheControl |-> "",
            pragma |-> "",
            expires |-> "",
            body |-> "Tracking ID not found"]

\* the pixel response: res.set({...}); res.send(transparentPixel)
PixelResponse(trackingId) ==
    [status |-> StatusOk,
     contentType |-> "image/png",
     cacheControl |-> "no-store, no-cache, must-revalidate, private",
     pragma |-> "no-cache",
     expires |-> "0",
     body |-> transparentPixel]

(* ------------------------------- Init --------------------------------- *)

Init ==
    /\ now = 0
    /\ ticks = 0
    /\ tz \in TzOffsets
    /\ table = {}
    /\ pc = [s \in Slots |-> "idle"]
    /\ req = [s \in Slots |-> NoReq]
    /\ got = [s \in Slots |-> NoRow]
    /\ out = [s \in Slots |-> "none"]
    /\ response = [s \in Slots |-> NoResponse]
    /\ queries = 0
    /\ qpc = "idle"
    /\ qsince = 0
    /\ qrows = <<>>
    /\ recentResp = NoResponse
    /\ idpc = "idle"
    /\ idreq = Null
    /\ idrow = NoRow
    /\ idResp = NoResponse
    /\ allpc = "idle"
    /\ allrows = <<>>
    /\ allResp = NoResponse
    /\ baseline = [t \in TrackingIds |-> Null]
    /\ applied = [t \in TrackingIds |-> 0]
    /\ classified = [s \in Slots |-> NotClassified]

(* ------------------------------ actions ------------------------------- *)

\* the server process is alive: no uncaught exception has ended it
Running == \A s \in Slots : pc[s] # "crashed"

\* wall-clock time passes
Tick(d) ==
    /\ Running
    /\ ticks < MaxTicks
    /\ now' = now + d
    /\ ticks' = ticks + 1
    /\ UNCHANGED <<apiVars, tz, table, pixelVars, queryVars, histVars, classified>>

\* a handler that leaves the response to the db.get callback
HandlerSendsNothing(s, trackingId) ==
    response' = response

\* res.set(...); res.send(transparentPixel) at the end of the pixel handler
HandlerSend(s, trackingId) ==
    response' = [response EXCEPT ![s] = PixelResponse(trackingId)]

\* app.get('/track/:trackingId.png'): the handler reads the request, queues
\* db.get and sends the pixel
TrackRequest(s, trackingId, ip, header) ==
    /\ Running
    /\ pc[s] = "idle"
    /\ IF s = 1 THEN TRUE ELSE pc[s - 1] # "idle"
    /\ req' = [req EXCEPT ![s] = [trackingId |-> trackingId,
                                  ipAddress |-> ip,
                                  userAgent |-> UserAgentOf(header),
                                  timestamp |-> now]]
    /\ pc' = [pc EXCEPT ![s] = "get"]
    /\ HandlerSend(s, trackingId)
    /\ UNCHANGED <<apiVars, now, ticks, tz, table, got, out, queryVars, histVars, classified>>

\* the database executes the queued SELECT; it may fail
DbGet(s, fails) ==
    /\ Running
    /\ pc[s] = "get"
    /\ got' = [got EXCEPT ![s] = IF fails THEN DbError
                                 ELSE SelectByTrackingId(table, req[s].trackingId)]
    /\ pc' = [pc EXCEPT ![s] = "callback"]
    /\ UNCHANGED <<apiVars, now, ticks, tz, table, req, out, response, queryVars, histVars, classified>>

\* the db.get callback (err, row) => {...}; once it returns, the row it was
\* given is garbage, and so are the handler's locals unless a statement that
\* uses them is queued.  The action says nothing of the history variable
\* classified: the specification that uses the action does
GetCallback(s) ==
    /\ Running
    /\ pc[s] = "callback"
    /\ IF got[s] = DbError
         THEN /\ out' = [out EXCEPT ![s] = "dberror"]
              /\ pc' = [pc EXCEPT ![s] = "done"]
              /\ req' = [req EXCEPT ![s] = NoReq]
         ELSE IF got[s] # NoRow
         THEN IF CountsAsRealOpen(got[s], req[s], now)
                THEN /\ out' = [out EXCEPT ![s] = "counted"]
                     /\ pc' = [pc EXCEPT ![s] = "update"]
                     /\ req' = req
                ELSE /\ out' = [out EXCEPT ![s] = "ignored"]
                     /\ pc' = [pc EXCEPT ![s] = "done"]
                     /\ req' = [req EXCEPT ![s] = NoReq]
         ELSE /\ out' = [out EXCEPT ![s] = "new"]
              /\ pc' = [pc EXCEPT ![s] = "insert"]
              /\ req' = req
    /\ got' = [got EXCEPT ![s] = NoRow]
    /\ UNCHANGED <<apiVars, now, ticks, tz, table, response, queryVars, histVars>>

\* the database executes the queued UPDATE.  This db.run is given no
\* callback: when the statement fails, sqlite3 emits 'error' on the statement
\* object, nothing listens, and the uncaught exception ends the process
DbRunUpdate(s, fails) ==
    /\ Running
    /\ pc[s] = "update"
    /\ IF fails
         THEN /\ pc' = [pc EXCEPT ![s] = "crashed"]
              /\ UNCHANGED <<table, applied>>
         ELSE /\ table' = UpdateTable(table, req[s])
              /\ applied' = [applied EXCEPT ![req[s].trackingId] =
                                IF RowsOf(table, req[s].trackingId) = {} THEN @ ELSE @ + 1]
              /\ pc' = [pc EXCEPT ![s] = "done"]
    /\ req' = [req EXCEPT ![s] = NoReq]
    /\ UNCHANGED <<apiVars, now, ticks, tz, got, out, response, queryVars, baseline, classified>>

\* the INSERT as INSERT OR REPLACE: a row with the tracking id is deleted
\* and the new row takes its place
DbRunInsertOrReplace(s, fails) ==
    /\ Running
    /\ pc[s] = "insert"
    /\ IF fails
         THEN /\ out' = [out EXCEPT ![s] = "inserterr"]
              /\ UNCHANGED <<table, baseline>>
         ELSE /\ table' = (table \ RowsOf(table, req[s].trackingId))
                             \cup {InsertedRow(table, req[s], now)}
              /\ baseline' = [baseline EXCEPT ![req[s].trackingId] = req[s].timestamp]
              /\ out' = [out EXCEPT ![s] = "recorded"]
    /\ pc' = [pc EXCEPT ![s] = "done"]
    /\ req' = [req EXCEPT ![s] = NoReq]
    /\ UNCHANGED <<apiVars, now, ticks, tz, got, response, queryVars, applied, classified>>

\* the database executes the queued INSERT, then (insertErr) => {...} logs
DbRunInsert(s, fails) ==
    /\ Running
    /\ pc[s] = "insert"
    /\ IF fails
         THEN /\ out' = [out EXCEPT ![s] = "inserterr"]
              /\ UNCHANGED <<table, baseline>>
         ELSE IF UniqueViolated(table, req[s].trackingId)
         THEN /\ out' = [out EXCEPT ![s] = "constraint"]
              /\ UNCHANGED <<table, baseline>>
         ELSE /\ table' = table \cup {InsertedRow(table, req[s], now)}
              /\ baseline' = [baseline EXCEPT ![req[s].trackingId] = req[s].timestamp]
              /\ out' = [out EXCEPT ![s] = "recorded"]
    /\ pc' = [pc EXCEPT ![s] = "done"]
    /\ req' = [req EXCEPT ![s] = NoReq]
    /\ UNCHANGED <<apiVars, now, ticks, tz, got, response, queryVars, applied, classified>>

\* the WHERE clause without AND open_count > 0
RecentWhereAnyCount(row, since) == row.first_opened > since

\* SELECT ... WHERE first_opened > ? AND open_count > 0
RecentWhere(row, since) == row.first_opened > since /\ row.open_count > 0

\* ORDER BY first_opened DESC
OrderedByFirstOpenedDesc(rows) ==
    \A i, j \in 1..Len(rows) : i < j => rows[i].first_opened >= rows[j].first_opened

\* the sequences db.all may pass for a set of selected rows: each row once,
\* in the ORDER BY order (rows with equal keys in either order)
ResultSets(sel) ==
    {rows \in [1..Cardinality(sel) -> sel] :
        /\ \A r \in sel : \E i \in 1..Cardinality(sel) : rows[i] = r
        /\ OrderedByFirstOpenedDesc(rows)}

\* rows.filter(row => timeDiff >= 120000 || row.open_count > 1), at Date.now() = t
IsRealOpen(row, t) ==
    (t - ParseCreatedAt(row.created_at)) >= GraceMs \/ row.open_count > 1

\* Array.prototype.filter
RECURSIVE FilterSeq(_, _)
FilterSeq(rows, t) ==
    IF rows = <<>> THEN <<>>
    ELSE (IF IsRealOpen(Head(rows), t) THEN <<Head(rows)>> ELSE <<>>)
            \o FilterSeq(Tail(rows), t)

\* realOpens.map(row => ({...})); new Date(iso).getTime() of an ISO string
\* that toISOString() wrote is the instant it was written from
RecentJson(row) ==
    [trackingId |-> row.tracking_id,
     ipAddress |-> row.ip_address,
     timestamp |-> row.first_opened,
     lastOpened |-> row.last_opened,
     openCount |-> row.open_count]

\* app.get('/api/recent-opens'): the handler fixes since and queues db.all
RecentRequest(since) ==
    /\ Running
    /\ qpc = "idle"
    /\ queries < MaxQueries
    /\ queries' = queries + 1
    /\ qsince' = IF since.present THEN since.value ELSE now - DefaultSinceMs
    /\ qpc' = "all"
    /\ recentResp' = NoResponse
    /\ UNCHANGED <<apiVars, now, ticks, tz, table, pixelVars, qrows, histVars, classified>>

\* the database executes the queued SELECT of /api/recent-opens; it may fail
DbAll(fails) ==
    /\ Running
    /\ qpc = "all"
    /\ IF fails
         THEN qrows' = <<DbError>>
         ELSE qrows' \in ResultSets({r \in table : RecentWhere(r, qsince)})
    /\ qpc' = "callback"
    /\ UNCHANGED <<apiVars, now, ticks, tz, table, pixelVars, queries, qsince, recentResp, histVars, classified>>

\* the db.all callback (err, rows) => {...}
RecentCallback ==
    /\ Running
    /\ qpc = "callback"
    /\ recentResp' =
          IF qrows = <<DbError>>
            THEN [status |-> 500, body |-> <<[error |-> "Database error"]>>]
            ELSE [status |-> StatusOk,
                  body |-> [i \in 1..Len(FilterSeq(qrows, now)) |->
                              RecentJson(FilterSeq(qrows, now)[i])]]
    /\ qrows' = <<>>
    /\ qsince' = 0
    /\ qpc' = "idle"
    /\ UNCHANGED <<apiVars, now, ticks, tz, table, pixelVars, queries, histVars, classified>>

\* res.json({...}) / res.status(...).json({...}) of /api/tracking/:trackingId
TrackingResponse(row) ==
    IF row = DbError
      THEN [status |-> 500, body |-> [error |-> "Database error"]]
    ELSE IF row # NoRow
      THEN [status |-> StatusOk,
            body |-> [trackingId |-> row.tracking_id,
                      ipAddress |-> row.ip_address,
                      userAgent |-> row.user_agent,
                      firstOpened |-> row.first_opened,
                      lastOpened |-> row.last_opened,
                      openCount |-> row.open_count,
                      senderIp |-> row.sender_ip]]
    ELSE [status |-> 404, body |-> [error |-> "Tracking ID not found"]]

\* app.get('/api/tracking/:trackingId'): the handler queues db.get
TrackingRequest(trackingId) ==
    /\ Running
    /\ idpc = "idle"
    /\ queries < MaxQueries
    /\ queries' = queries + 1
    /\ idreq' = trackingId
    /\ idpc' = "get"
    /\ idResp' = NoResponse
    /\ UNCHANGED <<now, ticks, tz, table, pixelVars, qpc, qsince, qrows, recentResp,
                   idrow, allpc, allrows, allResp, histVars, classified>>

\* a lookup that creates the record it does not find (get-or-create)
DbGetByIdOrCreate(fails) ==
    /\ Running
    /\ idpc = "get"
    /\ idrow' = IF fails THEN DbError ELSE SelectByTrackingId(table, idreq)
    /\ table' = IF fails \/ RowsOf(table, idreq) # {} THEN table
                ELSE table \cup {InsertedRow(table,
                                     [trackingId |-> idreq, ipAddress |-> Null,
                                      userAgent |-> "Unknown", timestamp |-> now],
                                     now)}
    /\ idpc' = "callback"
    /\ UNCHANGED <<now, ticks, tz, pixelVars, queryVars,
                   idreq, idResp, allpc, allrows, allResp, histVars, classified>>

\* the database executes the queued SELECT of /api/tracking; it may fail
DbGetById(fails) ==
    /\ Running
    /\ idpc = "get"
    /\ idrow' = IF fails THEN DbError ELSE SelectByTrackingId(table, idreq)
    /\ idpc' = "callback"
    /\ UNCHANGED <<now, ticks, tz, table, pixelVars, queryVars,
                   idreq, idResp, allpc, allrows, allResp, histVars, classified>>

\* the db.get callback (err, row) => {...} of /api/tracking
TrackingCallback ==
    /\ Running
    /\ idpc = "callback"
    /\ idResp' = TrackingResponse(idrow)
    /\ idrow' = NoRow
    /\ idpc' = "idle"
    /\ UNCHANGED <<now, ticks, tz, table, pixelVars, queryVars,
                   idreq, allpc, allrows, allResp, histVars, classified>>

\* SELECT tracking_id, ip_address, first_opened, last_opened, open_count, sender_ip
AllColumns(row) ==
    [tracking_id |-> row.tracking_id,
     ip_address |-> row.ip_address,
     first_opened |-> row.first_opened,
     last_opened |-> row.last_opened,
     open_count |-> row.open_count,
     sender_ip |-> row.sender_ip]

\* LIMIT n
Limit(rows, n) == SubSeq(rows, 1, IF Len(rows) < n THEN Len(rows) ELSE n)

\* app.get('/api/all-tracking'): the handler queues db.all
AllTrackingRequest ==
    /\ Running
    /\ allpc = "idle"
    /\ queries < MaxQueries
    /\ queries' = queries + 1
    /\ allpc' = "all"
    /\ allResp' = NoResponse
    /\ UNCHANGED <<now, ticks, tz, table, pixelVars, qpc, qsince, qrows, recentResp,
                   idpc, idreq, idrow, idResp, allrows, histVars, classified>>

\* the database executes SELECT ... WHERE open_count > 0 ORDER BY first_opened
\* DESC LIMIT 100; it may fail
DbAllTracking(fails) ==
    /\ Running
    /\ allpc = "all"
    /\ IF fails
         THEN allrows' = <<DbError>>
         ELSE \E rows \in ResultSets({r \in table : r.open_count > 0}) :
                 allrows' = [i \in 1..Len(Limit(rows, AllLimit)) |->
                               AllColumns(Limit(rows, AllLimit)[i])]
    /\ allpc' = "callback"
    /\ UNCHANGED <<now, ticks, tz, table, pixelVars, queryVars,
                   idpc, idreq, idrow, idResp, allResp, histVars, classified>>

\* the db.all callback (err, rows) => {...} of /api/all-tracking
AllTrackingCallback ==
    /\ Running
    /\ allpc = "callback"
    /\ allResp' = IF allrows = <<DbError>>
                    THEN [status |-> 500, body |-> <<[error |-> "Database error"]>>]
                    ELSE [status |-> StatusOk, body |-> allrows]
    /\ allrows' = <<>>
    /\ allpc' = "idle"
    /\ UNCHANGED <<now, ticks, tz, table, pixelVars, queryVars,
                   idpc, idreq, idrow, idResp, histVars, classified>>

Next ==
    \/ \E d \in Deltas : Tick(d)
    \/ \E s \in Slots, t \in TrackingIds, ip \in Ips, h \in UserAgentHeaders :
          TrackRequest(s, t, ip, h)
    \/ \E s \in Slots, f \in BOOLEAN : DbGet(s, f)
    \/ \E s \in Slots : GetCallback(s) /\ UNCHANGED classified
    \/ \E s \in Slots, f \in BOOLEAN : DbRunUpdate(s, f)
    \/ \E s \in Slots, f \in BOOLEAN : DbRunInsert(s, f)
    \/ \E since \in SinceInputs : RecentRequest(since)
    \/ \E f \in BOOLEAN : DbAll(f)
    \/ RecentCallback

\* the pixel endpoint and /api/recent-opens
Spec == Init /\ [][Next]_vars

NextApi ==
    \/ \E d \in Deltas : Tick(d)
    \/ \E s \in Slots, t \in TrackingIds, ip \in Ips, h \in UserAgentHeaders :
          TrackRequest(s, t, ip, h)
    \/ \E s \in Slots, f \in BOOLEAN : DbGet(s, f)
    \/ \E s \in Slots : GetCallback(s) /\ UNCHANGED classified
    \/ \E s \in Slots, f \in BOOLEAN : DbRunUpdate(s, f)
    \/ \E s \in Slots, f \in BOOLEAN : DbRunInsert(s, f)
    \/ \E t \in TrackingIds : TrackingRequest(t)
    \/ \E f \in BOOLEAN : DbGetById(f)
    \/ TrackingCallback
    \/ AllTrackingRequest
    \/ \E f \in BOOLEAN : DbAllTracking(f)
    \/ AllTrackingCallback

\* the pixel endpoint, /api/tracking/:trackingId and /api/all-tracking
SpecApi == Init /\ [][NextApi]_vars

(* ------------------- two concurrent observations ---------------------- *)

\* the race specification: two pixel requests for one tracking id, in flight
\* together in every interleaving, on a store that works
RaceSlots == 1..2
RaceId == "abc"

\* the record a first observation from 1.1.1.1 at instant 0 left behind
BaselineRow ==
    InsertedRow({}, [trackingId |-> RaceId, ipAddress |-> "1.1.1.1",
                     userAgent |-> UserAgentOf(NoHeader), timestamp |-> 0], 0)

InitRace ==
    /\ now = 0
    /\ ticks = 0
    /\ tz \in TzOffsets
    /\ table \in {{}, {BaselineRow}}
    /\ pc = [s \in Slots |-> "idle"]
    /\ req = [s \in Slots |-> NoReq]
    /\ got = [s \in Slots |-> NoRow]
    /\ out = [s \in Slots |-> "none"]
    /\ response = [s \in Slots |-> NoResponse]
    /\ queries = 0
    /\ qpc = "idle"
    /\ qsince = 0
    /\ qrows = <<>>
    /\ recentResp = NoResponse
    /\ idpc = "idle"
    /\ idreq = Null
    /\ idrow = NoRow
    /\ idResp = NoResponse
    /\ allpc = "idle"
    /\ allrows = <<>>
    /\ allResp = NoResponse
    /\ baseline = [t \in TrackingIds |->
                      IF t = RaceId /\ table # {} THEN 0 ELSE Null]
    /\ applied = [t \in TrackingIds |-> 0]
    /\ classified = [s \in Slots |-> NotClassified]

\* the db.get callback, with what it saw kept as history
RaceCallback(s) ==
    /\ GetCallback(s)
    /\ classified' = [classified EXCEPT ![s] =
                         [found |-> got[s] # NoRow,
                          ip |-> req[s].ipAddress,
                          ua |-> req[s].userAgent,
                          at |-> now]]

NextRace ==
    \/ \E d \in Deltas : Tick(d)
    \/ \E s \in RaceSlots, ip \in Ips, h \in UserAgentHeaders :
          TrackRequest(s, RaceId, ip, h)
    \/ \E s \in RaceSlots : DbGet(s, FALSE)
    \/ \E s \in RaceSlots : RaceCallback(s)
    \/ \E s \in RaceSlots : DbRunUpdate(s, FALSE)
    \/ \E s \in RaceSlots : DbRunInsert(s, FALSE)

SpecRace == InitRace /\ [][NextRace]_vars

(* ------------------- queries on a store at rest ----------------------- *)

\* the query specification: /api/recent-opens on a store that earlier pixel
\* requests, served one after the other by a working store, left behind,
\* with no pixel request in flight
MaxHistory == 4
HistoryTimes == {0, 500}
QuerySinceInputs == SinceInputs \cup {[present |-> TRUE, value |-> 0]}

\* one earlier pixel request: the handler's locals and the instant its
\* statements ran
Observations ==
    {[trackingId |-> t, ipAddress |-> ip,
      userAgent |-> UserAgentOf(NoHeader), timestamp |-> at] :
        t \in TrackingIds, ip \in Ips, at \in HistoryTimes}

\* the table after the pixel request r is served alone, its statements
\* running at the instant of the request
Observed(tbl, r) ==
    IF RowsOf(tbl, r.trackingId) = {}
      THEN tbl \cup {InsertedRow(tbl, r, r.timestamp)}
    ELSE IF CountsAsRealOpen(SelectByTrackingId(tbl, r.trackingId), r, r.timestamp)
      THEN UpdateTable(tbl, r)
    ELSE tbl

RECURSIVE ObservedAll(_, _)
ObservedAll(tbl, obs) ==
    IF obs = <<>> THEN tbl
    ELSE ObservedAll(Observed(tbl, Head(obs)), Tail(obs))

\* sequences of at most MaxHistory requests in the order of their instants
Histories ==
    UNION {{h \in [1..n -> Observations] :
              \A i, j \in 1..n : i < j => h[i].timestamp <= h[j].timestamp} :
           n \in 0..MaxHistory}

InitQuery ==
    /\ now = CHOOSE t \in HistoryTimes : \A o \in HistoryTimes : o <= t
    /\ ticks = 0
    /\ tz \in TzOffsets
    /\ table \in {ObservedAll({}, h) : h \in Histories}
    /\ pc = [s \in Slots |-> "idle"]
    /\ req = [s \in Slots |-> NoReq]
    /\ got = [s \in Slots |-> NoRow]
    /\ out = [s \in Slots |-> "none"]
    /\ response = [s \in Slots |-> NoResponse]
    /\ queries = 0
    /\ qpc = "idle"
    /\ qsince = 0
    /\ qrows = <<>>
    /\ recentResp = NoResponse
    /\ idpc = "idle"
    /\ idreq = Null
    /\ idrow = NoRow
    /\ idResp = NoResponse
    /\ allpc = "idle"
    /\ allrows = <<>>
    /\ allResp = NoResponse
    /\ baseline = [t \in TrackingIds |->
                      IF RowsOf(table, t) = {} THEN Null
                      ELSE SelectByTrackingId(table, t).first_opened]
    /\ applied = [t \in TrackingIds |->
                     IF RowsOf(table, t) = {} THEN 0
                     ELSE SelectByTrackingId(table, t).open_count]
    /\ classified = [s \in Slots |-> NotClassified]

NextQuery ==
    \/ \E d \in Deltas : Tick(d)
    \/ \E since \in QuerySinceInputs : RecentRequest(since)
    \/ \E f \in BOOLEAN : DbAll(f)
    \/ RecentCallback

SpecQuery == InitQuery /\ [][NextQuery]_vars

(* ------------------------------ claims -------------------------------- *)

\* a row that db.get passed to the callback of request s
GotRow(s) == got[s] \notin {NoRow, DbError}

\* request s's db.get callback runs in this step
CallbackStep(s) == pc[s] = "callback" /\ pc'[s] # "callback"

\* request s's UPDATE is executed in this step and succeeds
UpdateStep(s) == pc[s] = "update" /\ pc'[s] = "done" /\ applied' # applied

\* request s's INSERT is executed in this step without a storage failure
InsertStep(s) == pc[s] = "insert" /\ pc'[s] = "done" /\ out'[s] # "inserterr"

\* C1: when the INSERT of a first observation is executed on a store that
\* holds no record for its tracking id (and the storage does not fail), the
\* step adds exactly one record for the id: openCount 0, senderIp, lastIp and
\* lastUserAgent those of the request, firstOpenedAt = lastOpenedAt = the
\* request's timestamp; nothing else changes and no open is counted.
C1_FirstObservationCreatesBaseline ==
    [][\A s \in Slots :
          (InsertStep(s) /\ RowsOf(table, req[s].trackingId) = {})
          => /\ \E r \in table' :
                  /\ r \notin table
                  /\ table' = table \cup {r}
                  /\ r.tracking_id = req[s].trackingId
                  /\ r.open_count = 0
                  /\ r.sender_ip = req[s].ipAddress
                  /\ r.ip_address = req[s].ipAddress
                  /\ r.user_agent = req[s].userAgent
                  /\ r.first_opened = req[s].timestamp
                  /\ r.last_opened = req[s].timestamp
             /\ Cardinality(RowsOf(table', req[s].trackingId)) = 1
             /\ out'[s] = "recorded"
             /\ applied' = applied]_vars

\* a first observation was recorded and its record is still the baseline
C1_Witness ==
    \E s \in Slots :
        /\ out[s] = "recorded"
        /\ \E r \in table :
              /\ r.open_count = 0
              /\ r.sender_ip = r.ip_address
              /\ r.first_opened = r.last_opened

\* C2: an observation that finds a record, comes from the record's senderIp
\* and is classified less than 120000 ms after the instant createdAt denotes
\* is ignored: it queues no statement and the table keeps every row.
C2_SenderWithinGraceIgnored ==
    [][\A s \in Slots :
          (/\ CallbackStep(s)
           /\ GotRow(s)
           /\ req[s].ipAddress = got[s].sender_ip
           /\ now - got[s].created_at < GraceMs)
          => /\ pc'[s] = "done"
             /\ out'[s] = "ignored"
             /\ table' = table]_vars

\* C2 holds of a server process whose local time zone is UTC
C2_WhenServerIsUtc ==
    [][\A s \in Slots :
          (/\ tz = 0
           /\ CallbackStep(s)
           /\ GotRow(s)
           /\ req[s].ipAddress = got[s].sender_ip
           /\ now - got[s].created_at < GraceMs)
          => /\ pc'[s] = "done"
             /\ out'[s] = "ignored"
             /\ table' = table]_vars

\* C3: an observation that finds a record and comes from another IP than
\* senderIp, or is classified at least 120000 ms after the instant createdAt
\* denotes, is counted (its UPDATE is queued); the UPDATE, once executed,
\* adds exactly 1 to openCount and sets lastOpenedAt, lastIp, lastUserAgent
\* to the request's timestamp, IP and user-agent, and changes nothing else.
C3_OtherIpOrAfterGraceCounted ==
    [][\A s \in Slots :
          /\ (/\ CallbackStep(s)
               /\ GotRow(s)
               /\ \/ req[s].ipAddress # got[s].sender_ip
                  \/ now - got[s].created_at >= GraceMs)
              => pc'[s] = "update" /\ out'[s] = "counted"
          /\ UpdateStep(s)
              => \E r \in RowsOf(table, req[s].trackingId) :
                    table' = (table \ {r}) \cup
                        {[r EXCEPT !.open_count = r.open_count + 1,
                                   !.last_opened = req[s].timestamp,
                                   !.ip_address = req[s].ipAddress,
                                   !.user_agent = req[s].userAgent]}]_vars

\* C3 holds of a server process whose local time zone is UTC
C3_WhenServerIsUtc ==
    [][\A s \in Slots :
          /\ (/\ tz = 0
               /\ CallbackStep(s)
               /\ GotRow(s)
               /\ \/ req[s].ipAddress # got[s].sender_ip
                  \/ now - got[s].created_at >= GraceMs)
              => pc'[s] = "update" /\ out'[s] = "counted"
          /\ UpdateStep(s)
              => \E r \in RowsOf(table, req[s].trackingId) :
                    table' = (table \ {r}) \cup
                        {[r EXCEPT !.open_count = r.open_count + 1,
                                   !.last_opened = req[s].timestamp,
                                   !.ip_address = req[s].ipAddress,
                                   !.user_agent = req[s].userAgent]}]_vars

\* C4: the UPDATE that takes a record's openCount from 0 to 1 sets its
\* firstOpenedAt to the timestamp of the request that is counted.
C4_FirstCountSetsFirstOpened ==
    [][\A s \in Slots :
          UpdateStep(s)
          => \A r \in RowsOf(table, req[s].trackingId) :
                r.open_count = 0
                => \A n \in RowsOf(table', req[s].trackingId) :
                      n.open_count = 1 /\ n.first_opened = req[s].timestamp]_vars

\* C5: a 200 response of /api/recent-opens lists no entry with openCount 0,
\* and no entry for a tracking id whose record has openCount 0.
C5_RecentOpensNeverListsZero ==
    recentResp.status = StatusOk
    => \A i \in DOMAIN recentResp.body :
          /\ recentResp.body[i].openCount > 0
          /\ \A r \in RowsOf(table, recentResp.body[i].trackingId) : r.open_count > 0

\* /api/recent-opens answered while a record with openCount 0 was old enough
\* to pass the handler's own filter, and the answer leaves it out
C5_Witness ==
    /\ recentResp.status = StatusOk
    /\ \E r \in table :
          /\ r.open_count = 0
          /\ IsRealOpen(r, now)
          /\ \A i \in DOMAIN recentResp.body :
                recentResp.body[i].trackingId # r.tracking_id

\* the count a record reaches when the observation classified[s] is processed
\* after a record with the given senderIp and createdAt exists
SeqCounts(senderIp, createdAt, s) ==
    IF classified[s].ip # senderIp
       \/ ~((classified[s].at - ParseCreatedAt(createdAt)) < GraceMs)
      THEN 1 ELSE 0

\* the openCount that processing the two observations one after the other
\* can end with, each classified at the instant its callback ran.  When both
\* found the record, that is the record's count plus the observations that
\* count.  Otherwise the first in line creates the record (count 0) at an
\* instant of its own and the second is classified against it: it counts if
\* its IP differs, and may or may not if the IP is the same
SeqOutcomes ==
    IF \A s \in RaceSlots : classified[s].found
      THEN {BaselineRow.open_count
              + SeqCounts(BaselineRow.sender_ip, BaselineRow.created_at, 1)
              + SeqCounts(BaselineRow.sender_ip, BaselineRow.created_at, 2)}
      ELSE IF classified[1].ip # classified[2].ip THEN {1} ELSE {0, 1}

RaceDone == \A s \in RaceSlots : pc[s] = "done"

\* C6: once two concurrent observations of one tracking id are both done,
\* the record's openCount is within 1 of every count that processing the
\* same two observations one after the other produces.
C6_RaceWithinOneOfSequential ==
    RaceDone
    => \A r \in RowsOf(table, RaceId) :
          \A n \in SeqOutcomes : r.open_count - n <= 1 /\ n - r.open_count <= 1

\* both observations found no record, they came from different IPs, and the
\* record ends with openCount 0 where one after the other they end with 1
C6_Witness ==
    /\ RaceDone
    /\ \A s \in RaceSlots : ~classified[s].found
    /\ classified[1].ip # classified[2].ip
    /\ \E r \in RowsOf(table, RaceId) : r.open_count = 0

\* C7: the table never holds two rows with one tracking id, and an INSERT
\* executed while a row with its tracking id exists reports an error and
\* leaves the table as it is.
C7_OneRecordPerTrackingId ==
    /\ [](\A t \in TrackingIds : Cardinality(RowsOf(table, t)) <= 1)
    /\ [][\A s \in Slots :
            (/\ pc[s] = "insert" /\ pc'[s] = "done"
             /\ RowsOf(table, req[s].trackingId) # {})
            => table' = table /\ out'[s] \in {"constraint", "inserterr"}]_vars

\* two first observations of one tracking id raced: the INSERT of the second
\* hit the UNIQUE constraint and one row exists
C7_Witness ==
    \E s \in Slots :
        /\ out[s] = "constraint"
        /\ \E t \in TrackingIds : Cardinality(RowsOf(table, t)) = 1

\* C8: every pixel request that was answered got the same response: status
\* 200, Content-Type image/png, the cache-disabling headers and the 1x1 PNG,
\* whatever the outcome of its storage work.
C8_PixelResponseIsFixed ==
    \A s \in Slots :
        response[s] # NoResponse
        => /\ response[s].status = 200
           /\ response[s].contentType = "image/png"
           /\ response[s].cacheControl = "no-store, no-cache, must-revalidate, private"
           /\ response[s].pragma = "no-cache"
           /\ response[s].expires = "0"
           /\ response[s].body = transparentPixel
           /\ \A o \in Slots : response[o] # NoResponse => response[o] = response[s]

\* two answered requests, one whose lookup failed and one that was counted,
\* ignored or recorded
C8_Witness ==
    \E s, o \in Slots :
        /\ out[s] = "dberror"
        /\ out[o] \in {"recorded", "counted", "ignored", "constraint", "inserterr"}
        /\ response[s] # NoResponse
        /\ response[o] # NoResponse

\* C9: a pixel request whose handler has run has its response, also while
\* its lookup is still queued or its callback has not run yet.
C9_ResponseBeforeStorage ==
    \A s \in Slots : pc[s] # "idle" => response[s].status = StatusOk

\* a request whose lookup has not been executed yet and that has its response
C9_Witness ==
    \E s \in Slots : pc[s] = "get" /\ response[s].status = StatusOk

\* C10: a record with openCount 0 has firstOpenedAt and lastOpenedAt equal
\* to the timestamp its INSERT wrote and no UPDATE was executed on it; a
\* record whose lastOpenedAt is not that timestamp has openCount >= 1.
C10_ZeroCountMeansPlaceholder ==
    \A r \in table :
        /\ r.open_count = 0
            => /\ r.first_opened = baseline[r.tracking_id]
               /\ r.last_opened = baseline[r.tracking_id]
               /\ applied[r.tracking_id] = 0
        /\ r.last_opened # baseline[r.tracking_id] => r.open_count >= 1

\* a record still at openCount 0 after a later observation of it was ignored,
\* while the clock has moved on
C10_Witness ==
    \E s \in Slots, r \in table :
        /\ out[s] = "ignored"
        /\ pc[s] = "done"
        /\ r.open_count = 0
        /\ Cardinality(table) = 1
        /\ now > r.last_opened

\* C11: no step changes the senderIp or the createdAt of a record that
\* exists: every row of the table is there after the step with the same id,
\* tracking id, sender_ip and created_at.
C11_SenderAndCreatedAtFrozen ==
    [][\A r \in table :
          \E n \in table' :
              /\ n.id = r.id
              /\ n.tracking_id = r.tracking_id
              /\ n.sender_ip = r.sender_ip
              /\ n.created_at = r.created_at]_vars

\* a record counted from another IP than its sender's, at a later second
\* than the one it was created in, while /api/recent-opens was answered
C11_Witness ==
    /\ recentResp # NoResponse
    /\ \E r \in table :
          /\ r.open_count >= 1
          /\ r.ip_address # r.sender_ip
          /\ CurrentTimestamp(r.last_opened) # r.created_at

\* /api/recent-opens answers 200 in this step
RecentAnswerStep == qpc = "callback" /\ qpc' = "idle" /\ qrows # <<DbError>>

\* the records listRecentOpens(since) is to return at the instant t
RecentExpected(since, t) ==
    {r \in table : /\ r.first_opened > since
                   /\ r.open_count > 0
                   /\ (t - r.created_at >= GraceMs \/ r.open_count > 1)}

\* the body lists exactly the records of the set, each once, in descending
\* order of firstOpenedAt
ListsExactly(body, records) ==
    /\ Len(body) = Cardinality(records)
    /\ \A r \in records :
          \E i \in DOMAIN body :
              /\ body[i].trackingId = r.tracking_id
              /\ body[i].ipAddress = r.ip_address
              /\ body[i].timestamp = r.first_opened
              /\ body[i].lastOpened = r.last_opened
              /\ body[i].openCount = r.open_count
    /\ \A i, j \in DOMAIN body : i < j => body[i].timestamp >= body[j].timestamp

\* C12: on a store at rest, the 200 answer of /api/recent-opens given at the
\* instant now lists exactly the records with firstOpenedAt > since,
\* openCount > 0 and (now - createdAt >= 120000 ms or openCount > 1), each
\* once, in descending order of firstOpenedAt.
C12_RecentOpensListsExactly ==
    [][RecentAnswerStep
       => ListsExactly(recentResp'.body, RecentExpected(qsince, now))]_vars

\* C12 holds of a server process whose local time zone is UTC
C12_WhenServerIsUtc ==
    [][(tz = 0 /\ RecentAnswerStep)
       => ListsExactly(recentResp'.body, RecentExpected(qsince, now))]_vars

\* in UTC, an answer with two entries while a third record is left out
C12_UtcWitness ==
    /\ tz = 0
    /\ recentResp.status = StatusOk
    /\ Len(recentResp.body) = 2
    /\ recentResp.body[1].timestamp > recentResp.body[2].timestamp

\* the pixel of request s was sent and nothing took it back
PixelSent(s) ==
    /\ response'[s].status = StatusOk
    /\ response'[s].body = transparentPixel

\* a failed lookup, then a failed INSERT, of the pixel endpoint, and a failed
\* read of each query endpoint, are contained
ReadAndInsertFailuresContained ==
    /\ \A s \in Slots :
          (pc[s] = "callback" /\ pc'[s] # "callback" /\ got[s] = DbError)
          => table' = table /\ PixelSent(s) /\ pc'[s] = "done"
    /\ \A s \in Slots :
          (pc[s] = "insert" /\ pc'[s] # "insert" /\ out'[s] = "inserterr")
          => table' = table /\ PixelSent(s) /\ pc'[s] = "done"
    /\ (qpc = "callback" /\ qpc' = "idle" /\ qrows = <<DbError>>)
          => table' = table /\ recentResp'.status = 500
    /\ (idpc = "callback" /\ idpc' = "idle" /\ idrow = DbError)
          => table' = table /\ idResp'.status = 500
    /\ (allpc = "callback" /\ allpc' = "idle" /\ allrows = <<DbError>>)
          => table' = table /\ allResp'.status = 500

\* C13: no storage failure changes the table or ends the process: after a
\* failed lookup, INSERT or UPDATE of the pixel endpoint the table is as it
\* was, the request keeps its 200 pixel and the server runs on; a failed read
\* of /api/recent-opens, /api/tracking/:trackingId or /api/all-tracking is
\* answered with status 500 and leaves the table as it was.
C13_StorageFailuresContained ==
    [][/\ ReadAndInsertFailuresContained
       /\ \A s \in Slots :
             (pc[s] = "update" /\ pc'[s] # "update" /\ applied' = applied)
             => /\ table' = table
                /\ PixelSent(s)
                /\ \A o \in Slots : pc'[o] # "crashed"]_vars

\* the failures that a callback receives are contained as C13 says
C13_ExceptFailedUpdate == [][ReadAndInsertFailuresContained]_vars

\* a failed lookup and a failed INSERT were logged and /api/recent-opens
\* answered a failed read with status 500
C13_RecentWitness ==
    /\ \E s, o \in Slots : out[s] = "dberror" /\ out[o] = "inserterr"
    /\ recentResp.status = 500

\* /api/tracking/:trackingId or /api/all-tracking answered a failed read
\* with status 500 while the table holds a record
C13_ApiWitness ==
    /\ table # {}
    /\ idResp.status = 500 \/ allResp.status = 500

\* C14: the lookup of /api/tracking/:trackingId passes the record of the
\* requested id when the table holds one and no row otherwise; the answer is
\* 200 with the record's fields, respectively 404 {error: "Tracking ID not
\* found"}; no step of the endpoint changes the table, and the lookup of a
\* pixel request for an id without a record finds no row, queried or not,
\* so that its callback goes on to record it as new.
C14_GetByIdOnlyReads ==
    [][/\ (idpc = "get" /\ idpc' = "callback" /\ idrow' # DbError)
           => IF \E r \in table : r.tracking_id = idreq
                THEN idrow' \in table /\ idrow'.tracking_id = idreq
                ELSE idrow' = NoRow
       /\ (idpc = "callback" /\ idpc' = "idle" /\ idrow # DbError)
           => IF idrow = NoRow
                THEN idResp' = [status |-> 404,
                                body |-> [error |-> "Tracking ID not found"]]
                ELSE /\ idResp'.status = 200
                     /\ idResp'.body.trackingId = idreq
                     /\ idResp'.body.ipAddress = idrow.ip_address
                     /\ idResp'.body.userAgent = idrow.user_agent
                     /\ idResp'.body.firstOpened = idrow.first_opened
                     /\ idResp'.body.lastOpened = idrow.last_opened
                     /\ idResp'.body.openCount = idrow.open_count
                     /\ idResp'.body.senderIp = idrow.sender_ip
       /\ idpc' # idpc => table' = table
       /\ \A s \in Slots :
             (/\ pc[s] = "get" /\ pc'[s] = "callback"
              /\ got'[s] # DbError
              /\ RowsOf(table, req[s].trackingId) = {})
             => got'[s] = NoRow
       /\ \A s \in Slots :
             (pc[s] = "callback" /\ pc'[s] # "callback" /\ got[s] = NoRow)
             => pc'[s] = "insert" /\ out'[s] = "new"]_vars

\* the id was answered 404, and the pixel request for it that came next was
\* recorded as a first observation
C14_Witness ==
    /\ idResp.status = 404
    /\ \E s \in Slots :
          /\ out[s] = "recorded"
          /\ \E r \in table :
                /\ r.tracking_id = idreq
                /\ r.open_count = 0
                /\ r.id = 1
                /\ Cardinality(table) = 1
                /\ pc = [o \in Slots |-> IF o = s THEN "done" ELSE "idle"]

\* C15: two observations that found the record, from the same IP and
\* classified at the same instant, one with a user-agent that isGmailProxy
\* accepts and one with a user-agent it rejects, get the same decision; and
\* once both are done the record has gained 1 for each of them when the
\* decision was to count and nothing when it was to ignore.
C15_ProxySignalDoesNotGate ==
    \A s, o \in RaceSlots :
        (/\ classified[s].found /\ classified[o].found
         /\ classified[s].ip = classified[o].ip
         /\ classified[s].at = classified[o].at
         /\ isGmailProxy(classified[s].ua, classified[s].ip)
         /\ ~isGmailProxy(classified[o].ua, classified[o].ip))
        => /\ out[s] = out[o]
           /\ out[s] \in {"counted", "ignored"}
           /\ RaceDone
               => \A r \in RowsOf(table, RaceId) :
                     r.open_count = BaselineRow.open_count
                                      + (IF out[s] = "counted" THEN 2 ELSE 0)

\* a proxy and a browser observation from the sender's IP, classified at the
\* same instant inside the grace window of a server in UTC: both ignored
C15_Witness ==
    /\ tz = 0
    /\ RaceDone
    /\ \E s, o \in RaceSlots :
          /\ classified[s].found /\ classified[o].found
          /\ classified[s].ip = BaselineRow.sender_ip
          /\ classified[o].ip = BaselineRow.sender_ip
          /\ classified[s].at = classified[o].at
          /\ isGmailProxy(classified[s].ua, classified[s].ip)
          /\ ~isGmailProxy(classified[o].ua, classified[o].ip)
          /\ out[s] = "ignored" /\ out[o] = "ignored"

\* C16: every step keeps every record and no openCount goes down: each row
\* of the table is there after the step, under its id and tracking id, with
\* the openCount it had or that plus 1.
C16_RecordsKeptCountsGrow ==
    [][\A r \in table :
          \E n \in table' :
              /\ n.id = r.id
              /\ n.tracking_id = r.tracking_id
              /\ n.open_count \in {r.open_count, r.open_count + 1}]_vars

\* a record was counted, and a failed read of /api/recent-opens answered
C16_Witness ==
    /\ \E r \in table : r.open_count = 1 /\ applied[r.tracking_id] = 1
    /\ recentResp.status = 500

\* two concurrent observations took a record from openCount 0 to 2
C16_RaceWitness ==
    /\ RaceDone
    /\ \E r \in table : r.open_count = 2

\* the observations whose lookup found the record and that were counted
FoundAndCounted == {s \in RaceSlots : classified[s].found /\ out[s] = "counted"}

\* the observations whose lookup found no record
FoundNothing == {s \in RaceSlots : pc[s] = "done" /\ ~classified[s].found}

\* C17: once the concurrent observations of one tracking id are all done on
\* a working store, the record's openCount is the number of observations
\* whose lookup found the record and whose decision was to count; an
\* observation whose lookup found the record was counted or ignored by that
\* decision, and of the observations whose lookup found no record exactly
\* one created the record while each other lost its INSERT to the UNIQUE
\* constraint and was dropped.
C17_NoLostIncrement ==
    RaceDone
    => /\ \A r \in RowsOf(table, RaceId) :
             r.open_count = BaselineRow.open_count + Cardinality(FoundAndCounted)
       /\ Cardinality(RowsOf(table, RaceId)) = 1
       /\ \A s \in RaceSlots \ FoundNothing : out[s] \in {"counted", "ignored"}
       /\ \A s \in FoundNothing : out[s] \in {"recorded", "constraint"}
       /\ FoundNothing # {}
           => Cardinality({s \in FoundNothing : out[s] = "recorded"}) = 1

\* both observations found the record, were classified at the same instant
\* and counted, and the record holds 2
C17_Witness ==
    /\ RaceDone
    /\ \A s \in RaceSlots : classified[s].found /\ out[s] = "counted"
    /\ classified[1].at = classified[2].at
    /\ \E r \in RowsOf(table, RaceId) : r.open_count = 2 /\ r.last_opened = 0

\* both lookups found no record: one INSERT created it, the other was dropped
C17_DroppedWitness ==
    /\ RaceDone
    /\ FoundNothing = RaceSlots
    /\ \E s \in RaceSlots : out[s] = "constraint"

\* C18: no step changes the firstOpenedAt of a record, which is the timestamp
\* its INSERT wrote (the sender-baseline observation); and every entry of a
\* 200 answer of /api/recent-opens is for a record whose baseline timestamp
\* is later than since, so a record created at or before since is not
\* listed, whatever was counted for it afterwards.
C18_FirstOpenedIsBaseline ==
    [][/\ \A r \in table :
             /\ r.first_opened = baseline[r.tracking_id]
             /\ \E n \in table' : n.id = r.id /\ n.first_opened = r.first_opened
       /\ RecentAnswerStep
           => \A i \in DOMAIN recentResp'.body :
                 /\ recentResp'.body[i].timestamp > qsince
                 /\ baseline[recentResp'.body[i].trackingId] > qsince]_vars

\* /api/recent-opens?since=500 got no row from the database while the table
\* holds a record created at or before 500 with an open counted after 500
C18_Witness ==
    /\ qpc = "callback"
    /\ qrows = <<>>
    /\ \E r \in table :
          /\ r.first_opened <= qsince
          /\ r.open_count >= 1
          /\ r.last_opened > qsince
          /\ qsince > 0

\* a record whose one counted observation came from another IP than the
\* sender's, inside the grace window
CountedOnceInGrace(r) ==
    /\ r.open_count = 1
    /\ r.ip_address # r.sender_ip
    /\ r.last_opened - r.created_at < GraceMs

\* the 200 answer given in this step lists the record r
Listed(r) ==
    \E i \in DOMAIN recentResp'.body : recentResp'.body[i].trackingId = r.tracking_id

\* C19: for a record whose single counted observation came from another IP
\* inside the grace window, on a store at rest: an answer of
\* /api/recent-opens given while now - createdAt < 120000 ms leaves the
\* record out; every answer given when now - createdAt >= 120000 ms to a
\* request with since < firstOpenedAt lists it; and as the clock advances the
\* handler's filter, once it accepts the record, keeps accepting it.
C19_CountedOpenListedAfterGrace ==
    [][\A r \in table :
          CountedOnceInGrace(r)
          => /\ (RecentAnswerStep /\ now - r.created_at < GraceMs) => ~Listed(r)
             /\ (RecentAnswerStep /\ now - r.created_at >= GraceMs
                    /\ qsince < r.first_opened) => Listed(r)
             /\ IsRealOpen(r, now) => IsRealOpen(r, now')]_vars

\* C19 holds of a server process whose local time zone is UTC
C19_WhenServerIsUtc ==
    [][\A r \in table :
          (tz = 0 /\ CountedOnceInGrace(r))
          => /\ (RecentAnswerStep /\ now - r.created_at < GraceMs) => ~Listed(r)
             /\ (RecentAnswerStep /\ now - r.created_at >= GraceMs
                    /\ qsince < r.first_opened) => Listed(r)
             /\ IsRealOpen(r, now) => IsRealOpen(r, now')]_vars

\* in UTC, an answer given after the grace window lists a record that was
\* counted once, from another IP, inside the window
C19_UtcWitness ==
    /\ tz = 0
    /\ recentResp.status = StatusOk
    /\ \E r \in table :
          /\ CountedOnceInGrace(r)
          /\ now - r.created_at >= GraceMs
          /\ \E i \in DOMAIN recentResp.body :
                recentResp.body[i].trackingId = r.tracking_id

=============================================================================
